---- MODULE Spec2Model ----
(***************************************************************************)
(* Folder hierarchy of the bookmark manager: the store (bookmarkData),     *)
(* the rendered folder tree (DOM), the folder dialog, and the debounced    *)
(* save whose completion triggers the re-render (js/main.js); and the      *)
(* store operations of core/DataManager.js.                                *)
(*                                                                         *)
(* Folder ids are positive integers (Date.now() read at creation); 0 is    *)
(* null.  The DOM folder tree is kept in document order (preorder): each   *)
(* element carries its nesting depth, so element i's subfolder container   *)
(* holds the elements that follow it with a larger depth.                  *)
(***************************************************************************)
EXTENDS Integers, Sequences, FiniteSets, TLC

VARIABLES folders, links, dom, currentFolder, currentEditId, folderModal,
          parentOptions, parentFolder, saveTimer, requests, dm, retry, autosave,
          file, clock, last

vars == <<folders, links, dom, currentFolder, currentEditId, folderModal,
          parentOptions, parentFolder, saveTimer, requests, dm, retry, autosave,
          file, clock, last>>

\* ------------------------------------------------------------- bounds
MaxClock == 3
MaxDup == 1
MaxInFlight == 2
MaxTimers == 2
MaxLoaded == 2
MaxCreated == 2
MaxRetries == 3

NULL == 0
Ids == 1..MaxClock
Names == {"a", "b"}

\* ------------------------------------------------------------- helpers
Range(s) == {s[i] : i \in DOMAIN s}

RECURSIVE SeqFilterIdx(_, _, _)
\* indices i >= from of s, in order, with keep[i]
SeqFilterIdx(keep, n, from) ==
    IF from > n THEN <<>>
    ELSE IF keep[from] THEN <<from>> \o SeqFilterIdx(keep, n, from + 1)
    ELSE SeqFilterIdx(keep, n, from + 1)

\* Array.prototype.find(f => f.id === id): index of the first match, 0 if none
FindIdx(fs, id) ==
    IF \E i \in DOMAIN fs : fs[i].id = id
    THEN CHOOSE i \in DOMAIN fs : fs[i].id = id /\ \A j \in 1..(i-1) : fs[j].id # id
    ELSE 0

RECURSIVE InsertByOrder(_, _)
\* insert r after every element whose order is <= r.order (stable)
InsertByOrder(sorted, r) ==
    IF sorted = <<>> THEN <<r>>
    ELSE IF Head(sorted).order <= r.order
         THEN <<Head(sorted)>> \o InsertByOrder(Tail(sorted), r)
         ELSE <<r>> \o sorted

RECURSIVE SortByOrder(_)
\* .sort((a, b) => (a.order || 0) - (b.order || 0)), stable
SortByOrder(s) ==
    IF s = <<>> THEN <<>>
    ELSE InsertByOrder(SortByOrder(SubSeq(s, 1, Len(s) - 1)), s[Len(s)])

\* ------------------------------------------------------------- store queries
\* folders.filter(f => f.parentId === p), in array order
ChildrenOf(fs, p) ==
    LET idx == SeqFilterIdx([i \in DOMAIN fs |-> fs[i].parentId = p], Len(fs), 1)
    IN  [k \in 1..Len(idx) |-> fs[idx[k]]]

RECURSIVE SomeParentFrom(_, _, _)
SomeParentFrom(fs, folderId, i) ==
    IF i > Len(fs) THEN FALSE
    ELSE IF fs[i].parentId = folderId THEN TRUE
    ELSE SomeParentFrom(fs, folderId, i + 1)

\* a test of the folder's own parentId instead of the other folders'
hasSubfoldersOwnParent(fs, folderId) ==
    FindIdx(fs, folderId) # 0 /\ fs[FindIdx(fs, folderId)].parentId # NULL

\* bookmarkData.folders.some(folder => folder.parentId === folderId)
hasSubfolders(fs, folderId) == SomeParentFrom(fs, folderId, 1)

RECURSIVE isDescendantFuel(_, _, _, _)
\* "true" / "false", or "overflow" when the walk up the parent chain never ends
\* (the recursion exhausts the call stack and a RangeError is thrown)
isDescendantFuel(fs, childId, parentId, fuel) ==
    IF childId = parentId THEN "true"
    ELSE LET i == FindIdx(fs, childId)
         IN  IF i = 0 \/ fs[i].parentId = NULL THEN "false"
             ELSE IF fuel = 0 THEN "overflow"
             ELSE isDescendantFuel(fs, fs[i].parentId, parentId, fuel - 1)

\* a check that looks at the direct parent only
isDescendantOneLevel(fs, childId, parentId) ==
    IF childId = parentId THEN "true"
    ELSE LET i == FindIdx(fs, childId)
         IN  IF i # 0 /\ fs[i].parentId = parentId THEN "true" ELSE "false"

isDescendant(fs, childId, parentId) ==
    isDescendantFuel(fs, childId, parentId, Len(fs))

OVERFLOW == -1

RECURSIVE DescendantsOfEach(_, _, _)
RECURSIVE getAllDescendantFuel(_, _, _)
\* the ids pushed by getAllDescendantFolderIds, in push order; holds OVERFLOW
\* when the recursion never ends (RangeError)
getAllDescendantFuel(fs, folderId, fuel) ==
    IF fuel = 0 THEN <<OVERFLOW>>
    ELSE DescendantsOfEach(fs, ChildrenOf(fs, folderId), fuel - 1)

DescendantsOfEach(fs, childFolders, fuel) ==
    IF childFolders = <<>> THEN <<>>
    ELSE <<Head(childFolders).id>>
         \o getAllDescendantFuel(fs, Head(childFolders).id, fuel)
         \o DescendantsOfEach(fs, Tail(childFolders), fuel)

\* the direct children only, without the recursive call
getChildFolderIdsOnly(fs, folderId) ==
    [k \in DOMAIN ChildrenOf(fs, folderId) |-> ChildrenOf(fs, folderId)[k].id]

getAllDescendantFolderIds(fs, folderId) ==
    getAllDescendantFuel(fs, folderId, Len(fs) + 1)

\* ------------------------------------------------------------- the folder DOM
\* last index of the subtree of element i (i itself when it has no descendants)
RECURSIVE SubtreeEndFrom(_, _, _)
SubtreeEndFrom(d, i, j) ==
    IF j < Len(d) /\ d[j + 1].depth > d[i].depth
    THEN SubtreeEndFrom(d, i, j + 1)
    ELSE j

SubtreeEnd(d, i) == SubtreeEndFrom(d, i, i)

\* the element whose subfolder container holds element i (0: #folderList)
ParentEl(d, i) ==
    IF d[i].depth = 0 THEN 0
    ELSE CHOOSE j \in 1..(i - 1) :
            /\ d[j].depth = d[i].depth - 1
            /\ \A k \in (j + 1)..(i - 1) : d[k].depth > d[j].depth

\* document.querySelector(`[data-folder-id="${id}"]`): first element in document order
FirstEl(d, id) ==
    IF \E i \in DOMAIN d : d[i].fid = id
    THEN CHOOSE i \in DOMAIN d : d[i].fid = id /\ \A j \in 1..(i - 1) : d[j].fid # id
    ELSE 0

\* an element is shown when every folder element around it has class expanded
Shown(d, i) ==
    \A j \in 1..(i - 1) : (i <= SubtreeEnd(d, j)) => d[j].exp

\* createFolderElement for each folder of fs, at the given depth
FolderElements(fs, depth, current) ==
    [k \in 1..Len(fs) |->
        [fid |-> fs[k].id, depth |-> depth, exp |-> FALSE,
         sel |-> (current = fs[k].id)]]

\* the folder list renderFolders builds: root folders sorted by order
RenderedRoots(fs, current) ==
    FolderElements(SortByOrder(ChildrenOf(fs, NULL)), 0, current)

\* the options updateParentFolderSelect lists: every folder reached from the
\* roots, skipping the folder being edited (and so everything below it)
RECURSIVE OptionsBelow(_, _, _, _)
OptionsBelow(fs, parentId, editId, fuel) ==
    IF fuel = 0 THEN {}
    ELSE LET kids == {fs[i].id : i \in {j \in DOMAIN fs :
                          fs[j].parentId = parentId /\ fs[j].id # editId}}
         IN  kids \cup UNION {OptionsBelow(fs, k, editId, fuel - 1) : k \in kids}

ParentSelectOptions(fs, editId) == OptionsBelow(fs, NULL, editId, Len(fs))

\* a pass that closes every other expanded folder, with subfolders or not
autoCloseAllOthers(d, fs, currentFolderId) ==
    [k \in DOMAIN d |->
        IF d[k].exp /\ d[k].fid # currentFolderId
        THEN [d[k] EXCEPT !.exp = FALSE]
        ELSE d[k]]

\* autoCloseEmptyFolders: every expanded element other than the clicked folder's
\* whose folder has no subfolders loses class expanded
autoCloseEmptyFolders(d, fs, currentFolderId) ==
    [k \in DOMAIN d |->
        IF d[k].exp /\ d[k].fid # currentFolderId /\ ~hasSubfolders(fs, d[k].fid)
        THEN [d[k] EXCEPT !.exp = FALSE]
        ELSE d[k]]

\* the folders whose element has class expanded / selected; a folder's element
\* is the one a lookup by folder id finds, the first in document order
ExpandedIds(d) == {d[k].fid : k \in {j \in DOMAIN d : d[j].exp /\ FirstEl(d, d[j].fid) = j}}
SelectedIds(d) == {d[k].fid : k \in {j \in DOMAIN d : d[j].sel /\ FirstEl(d, d[j].fid) = j}}

\* a toggle that leaves the folder open when it is already the current folder
toggleDomKeepCurrent(d, fs, folderId, current) ==
    LET i  == FirstEl(d, folderId)
        d1 == autoCloseEmptyFolders(d, fs, folderId)
        d2 == [k \in DOMAIN d1 |-> [d1[k] EXCEPT !.sel = (k = i)]]
        e  == SubtreeEnd(d2, i)
        subfolders == SortByOrder(ChildrenOf(fs, folderId))
    IN  IF d2[i].exp
        THEN IF current = folderId THEN d2 ELSE [d2 EXCEPT ![i].exp = FALSE]
        ELSE SubSeq(d2, 1, i - 1)
             \o <<[d2[i] EXCEPT !.exp = TRUE]>>
             \o FolderElements(subfolders, d2[i].depth + 1, current)
             \o SubSeq(d2, e + 1, Len(d2))

\* a toggle whose auto-close pass does not spare the clicked folder
toggleDomNoExempt(d, fs, folderId, current) ==
    LET i  == FirstEl(d, folderId)
        d1 == autoCloseEmptyFolders(d, fs, NULL)
        d2 == [k \in DOMAIN d1 |-> [d1[k] EXCEPT !.sel = (k = i)]]
        e  == SubtreeEnd(d2, i)
        subfolders == SortByOrder(ChildrenOf(fs, folderId))
    IN  IF d2[i].exp
        THEN [d2 EXCEPT ![i].exp = FALSE]
        ELSE SubSeq(d2, 1, i - 1)
             \o <<[d2[i] EXCEPT !.exp = TRUE]>>
             \o FolderElements(subfolders, d2[i].depth + 1, current)
             \o SubSeq(d2, e + 1, Len(d2))

\* a toggle that does not mark the clicked folder selected
toggleDomNoSelect(d, fs, folderId, current) ==
    LET i  == FirstEl(d, folderId)
        d1 == autoCloseEmptyFolders(d, fs, folderId)
        d2 == [k \in DOMAIN d1 |-> [d1[k] EXCEPT !.sel = FALSE]]
        e  == SubtreeEnd(d2, i)
        subfolders == SortByOrder(ChildrenOf(fs, folderId))
    IN  IF d2[i].exp
        THEN [d2 EXCEPT ![i].exp = FALSE]
        ELSE SubSeq(d2, 1, i - 1)
             \o <<[d2[i] EXCEPT !.exp = TRUE]>>
             \o FolderElements(subfolders, d2[i].depth + 1, current)
             \o SubSeq(d2, e + 1, Len(d2))

\* toggleFolder's DOM effect, for an element that exists
toggleDom(d, fs, folderId, current) ==
    LET i  == FirstEl(d, folderId)
        d1 == autoCloseEmptyFolders(d, fs, folderId)
        d2 == [k \in DOMAIN d1 |-> [d1[k] EXCEPT !.sel = (k = i)]]
        e  == SubtreeEnd(d2, i)
        subfolders == SortByOrder(ChildrenOf(fs, folderId))
    IN  IF d2[i].exp
        THEN [d2 EXCEPT ![i].exp = FALSE]
        ELSE SubSeq(d2, 1, i - 1)
             \o <<[d2[i] EXCEPT !.exp = TRUE]>>
             \o FolderElements(subfolders, d2[i].depth + 1, current)
             \o SubSeq(d2, e + 1, Len(d2))

\* ------------------------------------------------------------- drag reorder
\* folderElements.forEach((el, index) => { folder.order = index; folder.parentId = parentId })
RECURSIVE AssignEach(_, _, _, _, _)
AssignEach(fs, els, k, parentId, setParent) ==
    IF k > Len(els) THEN fs
    ELSE LET i == FindIdx(fs, els[k].fid)
             fs2 == IF i = 0 THEN fs
                    ELSE IF setParent
                         THEN [fs EXCEPT ![i].order = k - 1, ![i].parentId = parentId]
                         ELSE [fs EXCEPT ![i].order = k - 1]
         IN  AssignEach(fs2, els, k + 1, parentId, setParent)

\* updateFolderOrder: the elements matching '#folderList > .folder'
updateFolderOrder(fs, d) ==
    LET idx == SeqFilterIdx([i \in DOMAIN d |-> d[i].depth = 0], Len(d), 1)
    IN  AssignEach(fs, [k \in 1..Len(idx) |-> d[idx[k]]], 1, NULL, FALSE)

\* updateSubfolderOrder(parentId): every '.folder' inside #subfolder-<parentId>
updateSubfolderOrder(fs, d, parentId) ==
    LET i == FirstEl(d, parentId)
    IN  IF i = 0 THEN fs
        ELSE AssignEach(fs, SubSeq(d, i + 1, SubtreeEnd(d, i)), 1, parentId, TRUE)

\* the places of container t (0: #folderList) where Sortable can drop an element:
\* p means "right after position p" of the document order
DropPlaces(d, t) ==
    IF t = 0
    THEN {0} \cup {SubtreeEnd(d, k) : k \in {j \in DOMAIN d : d[j].depth = 0}}
    ELSE {t} \cup {SubtreeEnd(d, k) : k \in {j \in (t + 1)..SubtreeEnd(d, t) :
                                                  d[j].depth = d[t].depth + 1}}

\* the DOM after Sortable moved element i (with all it contains) into container t
\* at place p; t and p are positions of the DOM with the element taken out
MoveElement(d, i, t, p) ==
    LET e    == SubtreeEnd(d, i)
        rest == SubSeq(d, 1, i - 1) \o SubSeq(d, e + 1, Len(d))
        base == IF t = 0 THEN 0 ELSE rest[t].depth + 1
        sub  == [k \in 1..(e - i + 1) |->
                   [d[i + k - 1] EXCEPT !.depth = base + (d[i + k - 1].depth - d[i].depth)]]
    IN  SubSeq(rest, 1, p) \o sub \o SubSeq(rest, p + 1, Len(rest))

WithoutElement(d, i) == SubSeq(d, 1, i - 1) \o SubSeq(d, SubtreeEnd(d, i) + 1, Len(d))

\* ------------------------------------------------------------- store operations
Folder(id, name, parentId, order) ==
    [id |-> id, name |-> name, parentId |-> parentId, order |-> order]

Link(id, folderId, order) == [id |-> id, folderId |-> folderId, order |-> order]

KeepRecs(s, keep) ==
    LET idx == SeqFilterIdx(keep, Len(s), 1)
    IN  [k \in 1..Len(idx) |-> s[idx[k]]]

\* moveFolder's work on the store: the folder is looked up, the cycle check runs
\* ("overflow": the check throws), and only then parentId is assigned
moveFolderStore(fs, folderId, targetFolderId) ==
    LET i == FindIdx(fs, folderId)
        applied == i # 0 /\ isDescendant(fs, targetFolderId, folderId) = "false"
    IN  [folders |-> IF applied THEN [fs EXCEPT ![i].parentId = targetFolderId] ELSE fs,
         applied |-> applied]

\* saveFolder's work on the store when a folder is being edited: the edit is
\* refused when the chosen parent is the folder or below it; a folder that is
\* gone is not touched, and saveData() is still called
editFolderStore(fs, editId, name, parentId) ==
    LET i == FindIdx(fs, editId)
        refused == /\ i # 0
                   /\ parentId # NULL
                   /\ isDescendant(fs, parentId, editId) # "false"
        applied == i # 0 /\ ~refused
    IN  [folders |-> IF applied
                     THEN [fs EXCEPT ![i].name = name, ![i].parentId = parentId]
                     ELSE fs,
         applied |-> applied,
         saved |-> ~refused]

\* saveFolder's work on the store when a folder is created: id is Date.now()
newFolderStore(fs, now, name, parentId) ==
    Append(fs, Folder(now, name, parentId, Len(fs)))

\* deleteFolder's work on the store (main.js): the folder, its descendants and
\* their links are filtered out; nothing is removed when the descent throws
deleteFolderStore(fs, ls, folderId) ==
    LET descendantIds == getAllDescendantFolderIds(fs, folderId)
        thrown == OVERFLOW \in Range(descendantIds)
        allFolderIdsToDelete == {folderId} \cup Range(descendantIds)
    IN  [folders |-> IF thrown THEN fs
                     ELSE KeepRecs(fs, [i \in DOMAIN fs |->
                                           fs[i].id \notin allFolderIdsToDelete]),
         links |-> IF thrown THEN ls
                   ELSE KeepRecs(ls, [i \in DOMAIN ls |->
                                         ls[i].folderId \notin allFolderIdsToDelete]),
         ids |-> IF thrown THEN {} ELSE allFolderIdsToDelete,
         thrown |-> thrown]

\* DataManager.deleteSubfolders(parentId): the store after it, or thrown when the
\* recursion never ends (nothing is assigned before the innermost call returns)
RECURSIVE DMdeleteEach(_, _, _)
RECURSIVE DMdeleteSubfolders(_, _, _)
DMdeleteSubfolders(st, parentId, fuel) ==
    IF fuel = 0 THEN [st EXCEPT !.thrown = TRUE]
    ELSE LET st2 == DMdeleteEach(st, ChildrenOf(st.folders, parentId), fuel - 1)
         IN  IF st2.thrown THEN st2
             ELSE [st2 EXCEPT !.folders =
                      KeepRecs(st2.folders, [i \in DOMAIN st2.folders |->
                                                st2.folders[i].parentId # parentId])]

DMdeleteEach(st, subfolders, fuel) ==
    IF subfolders = <<>> \/ st.thrown THEN st
    ELSE LET st2 == DMdeleteSubfolders(st, Head(subfolders).id, fuel)
             st3 == IF st2.thrown THEN st2
                    ELSE [st2 EXCEPT !.links =
                             KeepRecs(st2.links, [i \in DOMAIN st2.links |->
                                 st2.links[i].folderId # Head(subfolders).id])]
         IN  DMdeleteEach(st3, Tail(subfolders), fuel)

\* splice(index, 1) with index counted from 1
Splice1(s, index) ==
    IF index > Len(s) THEN s
    ELSE SubSeq(s, 1, index - 1) \o SubSeq(s, index + 1, Len(s))

\* DataManager.deleteFolder(id): index is taken before the subfolders are
\* removed and used after; returned is the method's result
DataManagerDeleteFolder(fs, ls, id) ==
    LET index == FindIdx(fs, id)
        st == DMdeleteSubfolders([folders |-> fs, links |-> ls, thrown |-> FALSE],
                                 id, Len(fs) + 1)
    IN  IF index = 0
        THEN [folders |-> fs, links |-> ls, returned |-> FALSE]
        ELSE IF st.thrown
        THEN [folders |-> st.folders, links |-> st.links, returned |-> FALSE]
        ELSE [folders |-> Splice1(st.folders, index),
              links |-> KeepRecs(st.links, [i \in DOMAIN st.links |->
                                               st.links[i].folderId # id]),
              returned |-> TRUE]

\* bookmarkData.links.filter(l => l.folderId === folderId)
LinksIn(ls, folderId) == KeepRecs(ls, [i \in DOMAIN ls |-> ls[i].folderId = folderId])

\* renderLinks: the links of the current folder, sorted by order
renderedLinks(ls, folderId) == SortByOrder(LinksIn(ls, folderId))

\* moveLink's work on the store: folderId is assigned first, then order is the
\* number of links that have that folderId
moveLinkStore(ls, linkId, folderId) ==
    LET i  == FindIdx(ls, linkId)
        l2 == [ls EXCEPT ![i].folderId = folderId]
    IN  IF i = 0 THEN ls
        ELSE [l2 EXCEPT ![i].order = Len(LinksIn(l2, folderId))]

\* saveLink's work on the store: an edited link gets the chosen folder, a new
\* link is pushed with order the number of links of its folder
saveLinkStore(ls, editId, now, folderId) ==
    IF editId # NULL
    THEN IF FindIdx(ls, editId) = 0 THEN ls
         ELSE [ls EXCEPT ![FindIdx(ls, editId)].folderId = folderId]
    ELSE Append(ls, Link(now, folderId, Len(LinksIn(ls, folderId))))

\* DataManager.addFolder(folder), folder = {name, parentId, order} with absent
\* fields NULL: `x || default` takes the default for null and for 0; id is
\* generateId() (clock reading and a random suffix)
DataManagerAddFolder(fs, now, name, parentId, order) ==
    Append(fs, Folder(now, name,
                      IF parentId = NULL THEN NULL ELSE parentId,
                      IF order = NULL \/ order = 0 THEN Len(fs) ELSE order))

\* ------------------------------------------------------------- the application
\* what the code after `await saveData()` still has to do
Cont(k, id) == [k |-> k, id |-> id]

\* saveDataWithRetry is not running; pc is the place it is at, attempts its
\* counter, calls the saveData() calls it made, failed those of them that
\* returned false or threw, and waits the backoff waits it made, in ms
RetryIdle == [pc |-> "idle", maxRetries |-> 0, attempts |-> 0, calls |-> 0,
              failed |-> 0, waits |-> <<>>, returned |-> FALSE]

\* no auto-save of the notes is under way
AutoSaveIdle == [pc |-> "idle", saveAttempts |-> 0, saves |-> 0]

\* bookmarks.json does not exist
NoFile == [exists |-> FALSE, folders |-> <<>>, links |-> <<>>]

\* DataManager's save state: saveInProgress, pendingSave, the bodies of its POSTs
\* that are not answered yet, and the follow-up timers armed and not yet fired
DMIdle == [saveInProgress |-> FALSE, pendingSave |-> FALSE, inflight |-> <<>>,
           timers |-> 0]

\* the operation that ran last, with what it was given and what it answered
\* (pre, mid: the expanded folders before a click and after its auto-close pass;
\* again: the click before was on the same folder)
Op(op, id, arg, ok, mid, again) ==
    [op |-> op, id |-> id, arg |-> arg, ok |-> ok, pre |-> {}, mid |-> mid,
     again |-> again]
Other == Op("other", NULL, NULL, TRUE, {}, FALSE)

\* loadData succeeded: the store is the snapshot, the root folders are rendered
\* and no dialog is open
Loaded(snap) ==
    /\ folders = snap.folders
    /\ links = snap.links
    /\ dom = RenderedRoots(snap.folders, NULL)
    /\ currentFolder = NULL
    /\ currentEditId = NULL
    /\ folderModal = FALSE
    /\ parentOptions = ParentSelectOptions(snap.folders, NULL)
    /\ saveTimer = <<>>
    /\ requests = <<>>
    /\ dm = DMIdle
    /\ retry = RetryIdle
    /\ autosave = AutoSaveIdle
    /\ file = NoFile
    /\ parentFolder = NULL
    /\ clock = IF Len(snap.links) > Len(snap.folders)
               THEN Len(snap.links) ELSE Len(snap.folders)
    /\ last = Other

\* the timers of saveData() that are armed and have not fired, oldest first;
\* named: the timer is the one saveData.timeout holds
Timer(cont, named) == [cont |-> cont, named |-> named]

\* clearTimeout(saveData.timeout): the timer that saveData.timeout names is
\* cancelled if it has not fired (the promise of its saveData() never resolves)
clearTimeout(timers) ==
    KeepRecs(timers, [i \in DOMAIN timers |-> ~timers[i].named])

\* saveData.timeout = setTimeout(..., 100)
setTimeout100(timers, cont) ==
    Append([i \in DOMAIN timers |-> Timer(timers[i].cont, FALSE)], Timer(cont, TRUE))

\* the timers after a call of saveData() whose caller goes on with cont when
\* the promise resolves, without the clearTimeout
armSaveNoClear(timers, cont) == setTimeout100(timers, cont)
\* the timers after a call of saveData() whose caller goes on with cont when
\* the promise resolves
armSave(timers, cont) == setTimeout100(clearTimeout(timers), cont)

\* saveData(): cont is what its caller does once the promise resolves
saveData(cont) == saveTimer' = armSave(saveTimer, cont)

\* renderFolders(): the folder list is rebuilt from the root folders, and
\* updateParentFolderSelect() rebuilds the dialog's parent options, which leaves
\* the first option, None, selected
renderFolders(current) ==
    /\ dom' = RenderedRoots(folders, current)
    /\ parentOptions' = ParentSelectOptions(folders, currentEditId)
    /\ parentFolder' = NULL

ShownFolderIds == {dom[i].fid : i \in {j \in DOMAIN dom : Shown(dom, j)}}

\* select.value = v: the option with that value is selected, and none when
\* there is no such option (the value then reads '')
setSelectValue(options, v) == IF v \in options THEN v ELSE NULL

\* showAddFolderModal(): the dialog is opened for a new folder
showAddFolderModal ==
    /\ currentEditId' = NULL
    /\ parentOptions' = ParentSelectOptions(folders, NULL)
    /\ parentFolder' = NULL
    /\ folderModal' = TRUE
    /\ last' = Op("showAddFolderModal", NULL, NULL, TRUE, {}, FALSE)
    /\ UNCHANGED <<folders, links, dom, currentFolder, saveTimer, requests, dm,
                   retry, autosave, file, clock>>

\* editFolder(folderId): the dialog is opened on a folder; the parent is
\* selected among the options the select has, and then
\* updateParentFolderSelect() replaces the options, which leaves the first
\* one, None, selected
editFolder(folderId) ==
    LET i == FindIdx(folders, folderId)
    IN  /\ i # 0
        /\ currentEditId' = folderId
        /\ parentOptions' = ParentSelectOptions(folders, folderId)
        /\ parentFolder' = NULL
        /\ folderModal' = TRUE
        /\ last' = Op("editFolder", folderId,
                      setSelectValue(parentOptions, folders[i].parentId), TRUE, {},
                      FALSE)
        /\ UNCHANGED <<folders, links, dom, currentFolder, saveTimer, requests, dm,
                       retry, autosave, file, clock>>

\* saveFolder() with the dialog's name and parent fields, when Date.now() is now
saveFolderAt(now, name, parentId) ==
    /\ folderModal
    /\ IF currentEditId # NULL
       THEN LET r == editFolderStore(folders, currentEditId, name, parentId)
            IN  /\ folders' = r.folders
                /\ saveTimer' = IF r.saved THEN armSave(saveTimer, Cont("saveFolder", NULL))
                                ELSE saveTimer
                /\ last' = Op("saveFolder", currentEditId, parentId, r.applied, {}, FALSE)
                /\ clock' = clock
       ELSE /\ now <= MaxClock
            /\ clock' = now
            /\ folders' = newFolderStore(folders, now, name, parentId)
            /\ saveData(Cont("saveFolder", NULL))
            /\ last' = Op("newFolder", now, parentId, TRUE, {}, FALSE)
    /\ UNCHANGED <<links, dom, currentFolder, currentEditId, folderModal, parentOptions,
                   requests, dm,
                   parentFolder, retry, autosave, file>>

\* saveFolder() a millisecond or more after the last creation
saveFolder(name, parentId) == saveFolderAt(clock + 1, name, parentId)

\* moveFolder(folderId, targetFolderId): a folder element was dropped on a folder
moveFolder(folderId, targetFolderId) ==
    LET r == moveFolderStore(folders, folderId, targetFolderId)
    IN  /\ folders' = r.folders
        /\ saveTimer' = IF r.applied THEN armSave(saveTimer, Cont("moveFolder", NULL))
                        ELSE saveTimer
        /\ last' = Op("moveFolder", folderId, targetFolderId, r.applied, {}, FALSE)
        /\ UNCHANGED <<links, dom, currentFolder, currentEditId, folderModal,
                       parentOptions, clock, requests, dm,
                       parentFolder, retry, autosave, file>>

\* toggleFolder(folderId): a click on a folder header, or a call with an id that
\* has no element: then the auto-close pass runs, every class selected is
\* removed and folder.classList throws a TypeError (folder is null)
toggleFolder(folderId) ==
    LET i  == FirstEl(dom, folderId)
        d1 == autoCloseEmptyFolders(dom, folders, folderId)
        d2 == toggleDom(dom, folders, folderId, currentFolder)
    IN  IF i = 0
        THEN /\ dom' = [k \in DOMAIN d1 |-> [d1[k] EXCEPT !.sel = FALSE]]
             /\ last' = [Op("toggleFolderThrew", folderId, NULL, FALSE,
                            ExpandedIds(d1), FALSE)
                             EXCEPT !.pre = ExpandedIds(dom)]
             /\ UNCHANGED <<folders, links, currentFolder, currentEditId, folderModal,
                            parentOptions, saveTimer, clock, requests, dm,
                            parentFolder, retry, autosave, file>>
        ELSE /\ Len(d2) <= clock + MaxDup \/ Len(d2) <= Len(dom)
             /\ dom' = d2
             /\ currentFolder' = folderId
             /\ last' = [Op("toggleFolder", folderId, NULL, dom[i].exp,
                            ExpandedIds(d1),
                            last.op = "toggleFolder" /\ last.id = folderId)
                             EXCEPT !.pre = ExpandedIds(dom)]
             /\ UNCHANGED <<folders, links, currentEditId, folderModal, parentOptions,
                            saveTimer, clock, requests, dm,
                            parentFolder, retry, autosave, file>>

\* Sortable (group 'folders') moved element i into container t at place p;
\* onEnd runs on the list the drag started in (a reorder when t is that list)
sortableDrag(i, t, p) ==
    LET src  == ParentEl(dom, i)
        d2   == MoveElement(dom, i, t, p)
    IN  /\ dom' = d2
        /\ folders' = IF src = 0 THEN updateFolderOrder(folders, d2)
                       ELSE updateSubfolderOrder(folders, d2, dom[src].fid)
        /\ saveData(Cont("none", NULL))
        /\ last' = Op(IF t = src THEN "reorder" ELSE "drag", dom[i].fid,
                      IF src = 0 THEN NULL ELSE dom[src].fid, TRUE, {}, FALSE)
        /\ UNCHANGED <<links, currentFolder, currentEditId, folderModal,
                       parentOptions, clock, requests, dm,
                       parentFolder, retry, autosave, file>>

\* deleteFolder(folderId) with the confirm dialog accepted
deleteFolder(folderId) ==
    LET r == deleteFolderStore(folders, links, folderId)
    IN  /\ folders' = r.folders
        /\ links' = r.links
        /\ saveTimer' = IF r.thrown THEN saveTimer
                        ELSE armSave(saveTimer, Cont("deleteFolder", folderId))
        /\ last' = Op("deleteFolder", folderId, NULL, ~r.thrown, r.ids, FALSE)
        /\ UNCHANGED <<dom, currentFolder, currentEditId, folderModal,
                       parentOptions, clock, requests, dm,
                       parentFolder, retry, autosave, file>>

\* DataManager.deleteFolder(id) on the store
dataManagerDeleteFolder(id) ==
    LET r == DataManagerDeleteFolder(folders, links, id)
    IN  /\ folders' = r.folders
        /\ links' = r.links
        /\ last' = Op("DataManager.deleteFolder", id, NULL, r.returned, {}, FALSE)
        /\ UNCHANGED <<dom, currentFolder, currentEditId, folderModal,
                       parentOptions, saveTimer, clock, requests, dm,
                       parentFolder, retry, autosave, file>>

\* saveLink() with the link dialog's folder field (title and url are filled),
\* when Date.now() is now
saveLinkAt(now, folderId) ==
    /\ currentEditId = NULL => now <= MaxClock
    /\ clock' = IF currentEditId = NULL THEN now ELSE clock
    /\ links' = saveLinkStore(links, currentEditId, now, folderId)
    /\ saveData(Cont("saveLink", NULL))
    /\ last' = Op("saveLink", IF currentEditId = NULL THEN now ELSE currentEditId,
                  folderId, TRUE, {}, FALSE)
    /\ UNCHANGED <<folders, dom, currentFolder, currentEditId, folderModal,
                   parentOptions, requests, dm,
                   parentFolder, retry, autosave, file>>

\* saveLink() a millisecond or more after the last creation
saveLink(folderId) == saveLinkAt(clock + 1, folderId)

\* deleteLink(linkId) with the confirm dialog accepted
deleteLink(linkId) ==
    /\ links' = KeepRecs(links, [i \in DOMAIN links |-> links[i].id # linkId])
    /\ saveData(Cont("deleteLink", NULL))
    /\ last' = Op("deleteLink", linkId, NULL, TRUE, {}, FALSE)
    /\ UNCHANGED <<folders, dom, currentFolder, currentEditId, folderModal,
                   parentOptions, clock, requests, dm,
                   parentFolder, retry, autosave, file>>

\* moveLink(linkId, folderId): a link was dropped on a folder element
moveLink(linkId, folderId) ==
    /\ links' = moveLinkStore(links, linkId, folderId)
    /\ saveTimer' = IF FindIdx(links, linkId) # 0
                    THEN armSave(saveTimer, Cont("moveLink", NULL))
                    ELSE saveTimer
    /\ last' = Op("moveLink", linkId, folderId, FindIdx(links, linkId) # 0, {}, FALSE)
    /\ UNCHANGED <<folders, dom, currentFolder, currentEditId, folderModal,
                   parentOptions, clock, requests, dm,
                   parentFolder, retry, autosave, file>>

\* DataManager.addFolder({name, parentId, order}) on the store; it returns true
dataManagerAddFolder(name, parentId, order) ==
    /\ clock < MaxClock
    /\ clock' = clock + 1
    /\ folders' = DataManagerAddFolder(folders, clock + 1, name, parentId, order)
    /\ last' = [Op("DataManager.addFolder", clock + 1, parentId, TRUE, {}, FALSE)
                    EXCEPT !.again = (order # NULL)]
    /\ UNCHANGED <<links, dom, currentFolder, currentEditId, folderModal,
                   parentOptions, saveTimer, requests, dm,
                   parentFolder, retry, autosave, file>>

\* handleAutoSave once its await saveData() is over: the promise resolved (it
\* is never rejected), so the attempt is logged as successful and the retry
\* loop is left by its break, whatever the promise resolved with
handleAutoSaveResumed(a) == [a EXCEPT !.pc = "done"]

\* what the caller of a saveData() does once its promise resolves (the value
\* it resolves with, result.success or false, is not looked at)
afterSave(c) ==
    LET current == IF c.k = "deleteFolder" /\ currentFolder = c.id
                   THEN NULL ELSE currentFolder
    IN  /\ currentFolder' = current
        /\ IF c.k \in {"none", "autoSave"}
           THEN UNCHANGED <<dom, parentOptions, parentFolder>>
           ELSE renderFolders(current)
        /\ folderModal' = IF c.k = "saveFolder" THEN FALSE ELSE folderModal
        /\ autosave' = IF c.k = "autoSave" THEN handleAutoSaveResumed(autosave)
                       ELSE autosave

\* a sequence without its element i
Without(s, i) == KeepRecs(s, [k \in DOMAIN s |-> k # i])

\* the body of a POST: JSON.stringify of the store when fetch is called
Body(fs, ls) == [folders |-> fs, links |-> ls]

\* a 100 ms timer of saveData() fires, the POST is answered and the promise
\* resolves with no handler running in between, and the caller of that
\* saveData() goes on
saveResolves ==
    \E i \in DOMAIN saveTimer :
        /\ saveTimer' = Without(saveTimer, i)
        /\ afterSave(saveTimer[i].cont)
        /\ last' = Other
        /\ UNCHANGED <<folders, links, currentEditId, clock, requests, dm,
                       retry, file>>

\* a 100 ms timer of saveData() fires: fetch sends the store as it is now
\* (written: the server has written it to bookmarks.json)
saveTimerFires(i) ==
    /\ i \in DOMAIN saveTimer
    /\ Len(requests) < MaxInFlight
    /\ saveTimer' = Without(saveTimer, i)
    /\ requests' = Append(requests, [body |-> Body(folders, links),
                                     cont |-> saveTimer[i].cont,
                                     written |-> FALSE])
    /\ last' = Op("send", NULL, NULL, TRUE, {}, FALSE)
    /\ UNCHANGED <<folders, links, dom, currentFolder, currentEditId, folderModal,
                   parentOptions, dm, clock,
                   parentFolder, retry, autosave, file>>

\* the POST j is answered, with success or not (or fails): the promise
\* resolves with that and the caller of that saveData() goes on
saveAnswered(j, success) ==
    /\ j \in DOMAIN requests
    /\ requests' = Without(requests, j)
    /\ afterSave(requests[j].cont)
    /\ last' = IF requests[j].cont.k = "autoSave"
               THEN Op("autoSaveAnswered", NULL, NULL, success, {}, FALSE)
               ELSE Other
    /\ UNCHANGED <<folders, links, currentEditId, saveTimer, dm, clock,
                   retry, file>>

\* stopDragNotesWindow(): the notes window was dragged, saveData() is called
\* and nothing is awaited (again: a timer was armed when it was called)
stopDragNotesWindow ==
    /\ saveData(Cont("none", NULL))
    /\ last' = Op("saveData", NULL, NULL, TRUE, {}, saveTimer # <<>>)
    /\ UNCHANGED <<folders, links, dom, currentFolder, currentEditId, folderModal,
                   parentOptions, requests, dm, clock,
                   parentFolder, retry, autosave, file>>

\* the 1 s timer of handleAutoSave fires: the notes are put into bookmarkData
\* and the retry loop starts with its first await saveData()
handleAutoSave ==
    /\ autosave.pc \in {"idle", "done"}
    /\ autosave' = [pc |-> "awaiting", saveAttempts |-> 0, saves |-> 1]
    /\ saveData(Cont("autoSave", NULL))
    /\ last' = Op("handleAutoSave", NULL, NULL, TRUE, {}, FALSE)
    /\ UNCHANGED <<folders, links, dom, currentFolder, currentEditId, folderModal,
                   parentOptions, parentFolder, requests, dm, retry, file, clock>>

\* DataManager.saveData() up to its first await: with a save in progress it
\* notes a pending save and returns false, else fetch sends this.data
DataManagerSaveData(d, body) ==
    IF d.saveInProgress
    THEN [d EXCEPT !.pendingSave = TRUE]
    ELSE [d EXCEPT !.saveInProgress = TRUE, !.inflight = Append(@, body)]

\* DataManager.saveData() from the answer of its POST j on: on success a
\* pending save is taken up by a 100 ms timer; any other answer throws into
\* the catch; finally saveInProgress is reset
DataManagerSaveAnswered(d, j, success) ==
    LET d1 == [d EXCEPT !.inflight = Without(@, j)]
        d2 == IF success /\ d.pendingSave
              THEN [d1 EXCEPT !.pendingSave = FALSE, !.timers = @ + 1]
              ELSE d1
    IN  [d2 EXCEPT !.saveInProgress = FALSE]

\* a caller (a manager after a change of the store) calls DataManager.saveData()
dataManagerSaveData ==
    /\ dm.timers < MaxTimers
    /\ dm' = DataManagerSaveData(dm, Body(folders, links))
    /\ last' = Op("DataManager.saveData", NULL, NULL, ~dm.saveInProgress, {}, FALSE)
    /\ UNCHANGED <<folders, links, dom, currentFolder, currentEditId, folderModal,
                   parentOptions, saveTimer, requests, clock,
                   parentFolder, retry, autosave, file>>

RECURSIVE Pow2(_)
\* Math.pow(2, n)
Pow2(n) == IF n = 0 THEN 1 ELSE 2 * Pow2(n - 1)

\* saveDataWithRetry after a saveData() that returned false or threw, with a
\* backoff wait after the last attempt too
saveDataWithRetryFailedWaits(r) ==
    LET a == r.attempts + 1
    IN  [r EXCEPT !.attempts = a, !.failed = @ + 1,
                  !.waits = Append(@, Pow2(a) * 100), !.pc = "backoff"]
\* saveDataWithRetry after a saveData() that returned false or threw:
\* attempts++, then the backoff wait if attempts < maxRetries, else the loop is
\* left and false is returned
saveDataWithRetryFailed(r) ==
    LET a == r.attempts + 1
    IN  IF a < r.maxRetries
        THEN [r EXCEPT !.attempts = a, !.failed = @ + 1,
                       !.waits = Append(@, Pow2(a) * 100), !.pc = "backoff"]
        ELSE [r EXCEPT !.attempts = a, !.failed = @ + 1,
                       !.pc = "done", !.returned = FALSE]

\* saveDataWithRetry after a saveData() that returned true
saveDataWithRetrySucceeded(r) == [r EXCEPT !.pc = "done", !.returned = TRUE]

\* the POST j of DataManager.saveData() is answered, with success or not; a
\* saveDataWithRetry that awaits it goes on
dataManagerSaveAnswered(j, success) ==
    /\ j \in DOMAIN dm.inflight
    /\ dm' = DataManagerSaveAnswered(dm, j, success)
    /\ retry' = IF retry.pc # "awaiting" THEN retry
                ELSE IF success THEN saveDataWithRetrySucceeded(retry)
                ELSE saveDataWithRetryFailed(retry)
    /\ last' = Op("DataManager.saveAnswered", NULL, NULL, success, {}, dm.pendingSave)
    /\ UNCHANGED <<folders, links, dom, currentFolder, currentEditId, folderModal,
                   parentOptions, saveTimer, requests, clock,
                   parentFolder, autosave, file>>

\* a follow-up timer fires: () => this.saveData()
dataManagerFollowUp ==
    /\ dm.timers > 0
    /\ dm' = DataManagerSaveData([dm EXCEPT !.timers = @ - 1], Body(folders, links))
    /\ last' = Op("DataManager.followUp", NULL, NULL, ~dm.saveInProgress, {}, FALSE)
    /\ UNCHANGED <<folders, links, dom, currentFolder, currentEditId, folderModal,
                   parentOptions, saveTimer, requests, clock,
                   parentFolder, retry, autosave, file>>

\* saveDataWithRetry(maxRetries) is called: attempts = 0
saveDataWithRetry(maxRetries) ==
    /\ retry.pc = "idle"
    /\ retry' = [RetryIdle EXCEPT !.pc = "loop", !.maxRetries = maxRetries]
    /\ last' = Op("saveDataWithRetry", NULL, maxRetries, TRUE, {}, FALSE)
    /\ UNCHANGED <<folders, links, dom, currentFolder, currentEditId, folderModal,
                   parentOptions, parentFolder, saveTimer, requests, dm, autosave,
                   file, clock>>

\* the loop test of saveDataWithRetry and, with attempts < maxRetries, its
\* await this.saveData(): with a save in progress that call marks the pending
\* save and returns false at once, else its POST is sent and awaited
saveDataWithRetryLoop ==
    /\ retry.pc = "loop"
    /\ IF retry.attempts < retry.maxRetries
       THEN /\ dm' = DataManagerSaveData(dm, Body(folders, links))
            /\ retry' = IF dm.saveInProgress
                        THEN saveDataWithRetryFailed([retry EXCEPT !.calls = @ + 1])
                        ELSE [retry EXCEPT !.calls = @ + 1, !.pc = "awaiting"]
       ELSE /\ dm' = dm
            /\ retry' = [retry EXCEPT !.pc = "done", !.returned = FALSE]
    /\ last' = Op("saveDataWithRetry.loop", NULL, NULL, TRUE, {}, FALSE)
    /\ UNCHANGED <<folders, links, dom, currentFolder, currentEditId, folderModal,
                   parentOptions, parentFolder, saveTimer, requests, autosave,
                   file, clock>>

\* the backoff wait of saveDataWithRetry is over
saveDataWithRetryWaited ==
    /\ retry.pc = "backoff"
    /\ retry' = [retry EXCEPT !.pc = "loop"]
    /\ last' = Op("saveDataWithRetry.waited", NULL, NULL, TRUE, {}, FALSE)
    /\ UNCHANGED <<folders, links, dom, currentFolder, currentEditId, folderModal,
                   parentOptions, parentFolder, saveTimer, requests, dm, autosave,
                   file, clock>>

\* ------------------------------------------------------------- loading
\* a field that the JSON of the server does not have (undefined once parsed)
MISSING == -2

\* the loop of loadData over the folders, giving every folder its index as order
loadFoldersReindex(raw) ==
    [i \in DOMAIN raw |->
        [raw[i] EXCEPT !.order = i - 1,
                       !.parentId = IF @ = MISSING THEN NULL ELSE @]]
\* the loop of loadData over the folders: a folder without order gets its
\* index, a folder without parentId gets null
loadFolders(raw) ==
    [i \in DOMAIN raw |->
        [raw[i] EXCEPT !.order = IF @ = MISSING THEN i - 1 ELSE @,
                       !.parentId = IF @ = MISSING THEN NULL ELSE @]]

\* the loop of loadData over the links: a link without order gets its index
loadLinks(raw) ==
    [i \in DOMAIN raw |-> [raw[i] EXCEPT !.order = IF @ = MISSING THEN i - 1 ELSE @]]

\* validateAndSanitizeData on folders whose id and name are strings:
\* parentId || null, and order when it is a number, else 0
sanitizeFolders(raw) ==
    [i \in DOMAIN raw |->
        [raw[i] EXCEPT !.order = IF @ = MISSING THEN 0 ELSE @,
                       !.parentId = IF @ = MISSING \/ @ = NULL THEN NULL ELSE @]]

\* validateAndSanitizeData on links whose id, title and url are strings
sanitizeLinks(raw) ==
    [i \in DOMAIN raw |->
        [raw[i] EXCEPT !.order = IF @ = MISSING THEN 0 ELSE @,
                       !.folderId = IF @ = MISSING \/ @ = NULL THEN NULL ELSE @]]

\* the data of a load response; hasFolders, hasLinks: the field is an array
Response(hasFolders, fs, hasLinks, ls) ==
    [hasFolders |-> hasFolders, folders |-> fs, hasLinks |-> hasLinks, links |-> ls]

\* the response that is waited for (kept in last.mid until it is loaded)
Awaiting(raw) == [Op("response", NULL, NULL, TRUE, {}, FALSE) EXCEPT !.mid = raw]

\* what JSON.stringify({action: 'save', data}) of a store gives the server: both
\* collections are arrays; a field that is undefined is left out
Posted(body) == Response(TRUE, body.folders, TRUE, body.links)

\* saveData($data) of bookmark_api.php: bookmarks.json after it
phpSaveData(data) ==
    [exists |-> TRUE,
     folders |-> IF data.hasFolders THEN data.folders ELSE <<>>,
     links |-> IF data.hasLinks THEN data.links ELSE <<>>]

\* loadData() of bookmark_api.php: the data of its answer
phpLoadData(f) ==
    IF f.exists THEN Response(TRUE, f.folders, TRUE, f.links)
    ELSE Response(TRUE, <<>>, TRUE, <<>>)

\* loadData() of main.js from the response data raw on; l is the record of it
loadDataFrom(raw, l) ==
    LET fs  == IF raw.hasFolders THEN loadFolders(raw.folders) ELSE <<>>
        ls  == IF raw.hasLinks THEN loadLinks(raw.links) ELSE <<>>
    IN  /\ folders' = fs
        /\ links' = ls
        /\ dom' = RenderedRoots(fs, currentFolder)
        /\ parentOptions' = ParentSelectOptions(fs, currentEditId)
        /\ parentFolder' = NULL
        /\ last' = l
        /\ UNCHANGED <<currentFolder, currentEditId, folderModal, saveTimer,
                       requests, dm, clock, retry, autosave, file>>

\* loadData() of main.js with a response {success: true, data: raw}
loadData ==
    /\ last.op = "response"
    /\ loadDataFrom(last.mid, [Op("loadData", NULL, NULL, TRUE, {}, FALSE)
                                   EXCEPT !.mid = last.mid])

\* DataManager.loadData() from the response data raw on
dataManagerLoadDataFrom(raw, l) ==
    /\ folders' = IF raw.hasFolders THEN sanitizeFolders(raw.folders) ELSE <<>>
    /\ links' = IF raw.hasLinks THEN sanitizeLinks(raw.links) ELSE <<>>
    /\ last' = l
    /\ UNCHANGED <<dom, currentFolder, currentEditId, folderModal, parentOptions,
                   saveTimer, requests, dm, clock, parentFolder, retry, autosave,
                   file>>

\* DataManager.loadData() with a response {success: true, data: raw}
dataManagerLoadData ==
    /\ last.op = "response"
    /\ dataManagerLoadDataFrom(last.mid,
                               [Op("DataManager.loadData", NULL, NULL, TRUE, {}, FALSE)
                                    EXCEPT !.mid = last.mid])

\* bookmark_api.php handles the POST j of main.js: saveData($input['data'])
bookmarkApiSave(j) ==
    /\ j \in DOMAIN requests
    /\ ~requests[j].written
    /\ file' = phpSaveData(Posted(requests[j].body))
    /\ requests' = [requests EXCEPT ![j].written = TRUE]
    /\ last' = Op("bookmark_api.save", NULL, NULL, TRUE, {}, FALSE)
    /\ UNCHANGED <<folders, links, dom, currentFolder, currentEditId, folderModal,
                   parentOptions, parentFolder, saveTimer, dm, retry, autosave,
                   clock>>

\* loadData() of main.js when the fetch fails or the answer is no
\* {success: true, data}: the catch makes bookmarkData the empty default, and
\* nothing is rendered
loadDataFails ==
    /\ last.op = "response"
    /\ folders' = <<>>
    /\ links' = <<>>
    /\ last' = Op("loadDataFailed", NULL, NULL, FALSE, {}, FALSE)
    /\ UNCHANGED <<dom, currentFolder, currentEditId, folderModal, parentOptions,
                   parentFolder, saveTimer, requests, dm, retry, autosave, file,
                   clock>>

\* the store is saved by main.js, written by the server, and loaded again by
\* main.js from the server's answer (the page is reloaded)
saveAndReload ==
    /\ last.op = "other"
    /\ loadDataFrom(phpLoadData(phpSaveData(Posted(Body(folders, links)))),
                    [Op("saveAndReload", NULL, NULL, TRUE, {}, FALSE)
                         EXCEPT !.mid = Body(folders, links)])

\* the same with DataManager.saveData and DataManager.loadData
dataManagerSaveAndReload ==
    /\ last.op = "other"
    /\ dataManagerLoadDataFrom(phpLoadData(phpSaveData(Posted(Body(folders, links)))),
                               [Op("DataManager.saveAndReload", NULL, NULL, TRUE, {},
                                   FALSE) EXCEPT !.mid = Body(folders, links)])

\* ------------------------------------------------------------- the folder tree view
\* two folders, and the user drags, drops, clicks and deletes on the rendered
\* tree; every gesture needs an element that is shown
ViewSnapshots ==
    { [folders |-> <<Folder(1, "a", NULL, 0), Folder(2, "a", NULL, 1)>>,
       links |-> <<Link(1, 2, 0)>>],
      [folders |-> <<Folder(1, "a", NULL, 0), Folder(2, "a", 1, 0)>>,
       links |-> <<Link(1, 2, 0)>>] }

InitView == \E snap \in ViewSnapshots : Loaded(snap)

Dragging ==
    \E i \in DOMAIN dom :
        /\ Shown(dom, i)
        /\ \E t \in 0..Len(WithoutElement(dom, i)) :
             /\ t # 0 => (WithoutElement(dom, i)[t].exp /\ Shown(WithoutElement(dom, i), t))
             /\ \E p \in DropPlaces(WithoutElement(dom, i), t) : sortableDrag(i, t, p)

Clicking == \E id \in ShownFolderIds : toggleFolder(id)

Dropping == \E a \in ShownFolderIds, t \in ShownFolderIds : a # t /\ moveFolder(a, t)

Deleting == \E id \in ShownFolderIds : deleteFolder(id)

NextView == Clicking \/ Dragging \/ Dropping \/ Deleting \/ saveResolves

SpecView == InitView /\ [][NextView]_vars

\* ------------------------------------------------------------- expanding folders
\* deeper trees; the user clicks, drops and deletes (no Sortable reorder)
ExpandSnapshots ==
    { [folders |-> <<Folder(1, "a", NULL, 0), Folder(2, "a", 1, 0), Folder(3, "a", 2, 0)>>,
       links |-> <<Link(1, 3, 0)>>],
      [folders |-> <<Folder(1, "a", NULL, 0), Folder(2, "a", NULL, 1), Folder(3, "a", 2, 0)>>,
       links |-> <<Link(1, 3, 0)>>] }

InitExpand == \E snap \in ExpandSnapshots : Loaded(snap)

NextExpand == Clicking \/ Dropping \/ Deleting \/ saveResolves

SpecExpand == InitExpand /\ [][NextExpand]_vars

\* ------------------------------------------------------------- reordering
\* four folders; the user clicks and drags elements within the list they are in
ReorderSnapshots ==
    { [folders |-> <<Folder(1, "a", NULL, 0), Folder(2, "a", 1, 1),
                     Folder(3, "a", 2, 0), Folder(4, "a", 1, 0)>>,
       links |-> <<Link(1, 3, 0)>>],
      [folders |-> <<Folder(1, "a", NULL, 0), Folder(2, "a", NULL, 1),
                     Folder(3, "a", NULL, 2), Folder(4, "a", 2, 0)>>,
       links |-> <<Link(1, 3, 0)>>] }

InitReorder == \E snap \in ReorderSnapshots : Loaded(snap)

Reordering ==
    \E i \in DOMAIN dom :
        /\ Shown(dom, i)
        /\ \E p \in DropPlaces(WithoutElement(dom, i), ParentEl(dom, i)) :
               sortableDrag(i, ParentEl(dom, i), p)

NextReorder == Clicking \/ Reordering \/ saveResolves

SpecReorder == InitReorder /\ [][NextReorder]_vars

\* ------------------------------------------------------------- activation by id
\* toggleFolder is a global function: it is called with any folder id, also one
\* that has no element, over stores that may be empty
ActivateSnapshots ==
    ExpandSnapshots \cup {[folders |-> <<>>, links |-> <<>>]}

InitActivate == \E snap \in ActivateSnapshots : Loaded(snap)

Activating == \E id \in Ids : toggleFolder(id)

NextActivate == Activating \/ Deleting \/ saveResolves

SpecActivate == InitActivate /\ [][NextActivate]_vars

\* ------------------------------------------------------------- the store alone
\* every parent assignment of n folders in which no folder is its own parent
StoreShapes(n) ==
    {p \in [1..n -> {NULL} \cup (1..n)] : \A k \in 1..n : p[k] # k}

Permutations1(n) ==
    {f \in [1..n -> 1..n] : \A a, b \in 1..n : a # b => f[a] # f[b]}

\* a store of n folders with parents p, stored in array order perm
StoreOf(n, p, perm) == [k \in 1..n |-> Folder(perm[k], "a", p[perm[k]], perm[k] - 1)]

Identity(n) == [k \in 1..n |-> k]

FolderIds(fs) == {fs[i].id : i \in DOMAIN fs}

\* the folder dialog is open (for a new folder, or on folder e) over a loaded store
InitStore ==
    \E n \in 0..MaxClock :
      \E p \in StoreShapes(n), e \in {NULL} \cup (1..n) :
        /\ folders = StoreOf(n, p, Identity(n))
        /\ links = IF n = 0 THEN <<>> ELSE <<Link(1, n, 0)>>
        /\ dom = RenderedRoots(folders, NULL)
        /\ currentFolder = NULL
        /\ currentEditId = e
        /\ folderModal = TRUE
        /\ parentOptions = ParentSelectOptions(folders, e)
        /\ saveTimer = <<>>
        /\ requests = <<>>
        /\ dm = DMIdle
        /\ retry = RetryIdle
        /\ autosave = AutoSaveIdle
        /\ file = NoFile
        /\ parentFolder = NULL
        /\ clock = n
        /\ last = Other

\* hasSubfolders(folderId) is asked
askHasSubfolders(folderId) ==
    /\ last' = Op("hasSubfolders", folderId, NULL, hasSubfolders(folders, folderId),
                  {}, FALSE)
    /\ UNCHANGED <<folders, links, dom, currentFolder, currentEditId, folderModal,
                   parentOptions, saveTimer, clock, requests, dm,
                   parentFolder, retry, autosave, file>>

StoreMove == \E a \in Ids, t \in FolderIds(folders) : moveFolder(a, t)

StoreSave ==
    \E name \in Names, parentId \in {NULL} \cup FolderIds(folders) :
        saveFolder(name, parentId)

StoreDelete == \E id \in Ids : deleteFolder(id)

StoreAsk == \E id \in Ids : askHasSubfolders(id)

NextStore == StoreMove \/ StoreSave \/ StoreDelete \/ StoreAsk

SpecStore == InitStore /\ [][NextStore]_vars

\* ------------------------------------------------------------- creating folders
\* the folder dialog is open for a new folder; folders are created through it
\* or through DataManager.addFolder, and deleted
InitAdd ==
    \E n \in 0..(MaxClock - 1) :
      \E p \in StoreShapes(n) :
        /\ folders = StoreOf(n, p, Identity(n))
        /\ links = <<>>
        /\ dom = RenderedRoots(folders, NULL)
        /\ currentFolder = NULL
        /\ currentEditId = NULL
        /\ folderModal = TRUE
        /\ parentOptions = ParentSelectOptions(folders, NULL)
        /\ saveTimer = <<>>
        /\ requests = <<>>
        /\ dm = DMIdle
        /\ retry = RetryIdle
        /\ autosave = AutoSaveIdle
        /\ file = NoFile
        /\ parentFolder = NULL
        /\ clock = n
        /\ last = Other

DataManagerAdd ==
    \E name \in Names, parentId \in ({NULL} \cup Ids) \ {clock + 1}, order \in {NULL, 1} :
        dataManagerAddFolder(name, parentId, order)

NextAdd == StoreSave \/ DataManagerAdd \/ StoreDelete

SpecAdd == InitAdd /\ [][NextAdd]_vars

\* ------------------------------------------------------------- links
\* two root folders; links are created, deleted and dropped on folders
LinkSnapshots ==
    { [folders |-> <<Folder(1, "a", NULL, 0), Folder(2, "a", NULL, 1)>>,
       links |-> <<>>],
      [folders |-> <<Folder(1, "a", NULL, 0), Folder(2, "a", NULL, 1)>>,
       links |-> <<Link(1, 2, 0), Link(2, 1, 0), Link(3, 2, 1)>>] }

InitLinks == \E snap \in LinkSnapshots : Loaded(snap)

LinkIds(ls) == {ls[i].id : i \in DOMAIN ls}

LinkSave == \E f \in FolderIds(folders) : saveLink(f)

LinkDelete == \E l \in LinkIds(links) : deleteLink(l)

LinkMove == \E l \in LinkIds(links), f \in FolderIds(folders) : moveLink(l, f)

NextLinks == LinkSave \/ LinkDelete \/ LinkMove \/ saveResolves

SpecLinks == InitLinks /\ [][NextLinks]_vars

\* ------------------------------------------------------------- deleting
\* stores in every array order, one link in each folder
InitDelete ==
    \E n \in 1..MaxClock :
      \E p \in StoreShapes(n), perm \in Permutations1(n) :
        /\ folders = StoreOf(n, p, perm)
        /\ links = [k \in 1..n |-> Link(k, k, 0)]
        /\ dom = RenderedRoots(folders, NULL)
        /\ currentFolder = NULL
        /\ currentEditId = NULL
        /\ folderModal = FALSE
        /\ parentOptions = ParentSelectOptions(folders, NULL)
        /\ saveTimer = <<>>
        /\ requests = <<>>
        /\ dm = DMIdle
        /\ retry = RetryIdle
        /\ autosave = AutoSaveIdle
        /\ file = NoFile
        /\ parentFolder = NULL
        /\ clock = n
        /\ last = Other

DataManagerDelete == \E id \in Ids : dataManagerDeleteFolder(id)

NextDelete == StoreDelete \/ DataManagerDelete

SpecDelete == InitDelete /\ [][NextDelete]_vars

\* ------------------------------------------------------------- the debounced save
\* two folders and their links; links are moved and deleted and the notes window
\* is dragged, while the save timers fire and the POSTs are answered in any order
InitSave == Loaded([folders |-> <<Folder(1, "a", NULL, 0), Folder(2, "a", NULL, 1)>>,
                    links |-> <<Link(1, 2, 0), Link(2, 1, 0)>>])

SaveTimerFiring == \E i \in 1..MaxTimers : saveTimerFires(i)

SaveAnswering == \E j \in 1..MaxInFlight, success \in BOOLEAN : saveAnswered(j, success)

NextSave ==
    \/ stopDragNotesWindow
    \/ LinkDelete
    \/ LinkMove
    \/ SaveTimerFiring
    \/ SaveAnswering

SpecSave == InitSave /\ [][NextSave]_vars

\* ------------------------------------------------------------- the notes auto-save
\* notes are typed and the notes window is dragged, while the save timers fire
\* and the POSTs are answered, with success or not
NextAutoSave ==
    \/ handleAutoSave
    \/ stopDragNotesWindow
    \/ LinkDelete
    \/ SaveTimerFiring
    \/ SaveAnswering

SpecAutoSave == InitSave /\ [][NextAutoSave]_vars

\* ------------------------------------------------------------- DataManager's save
\* folders are deleted from DataManager's data and saveData() is called, while
\* the POSTs are answered, with success or not, and the follow-up timers fire
InitGateway ==
    \E n \in 1..MaxClock :
      \E p \in StoreShapes(n) :
        /\ folders = StoreOf(n, p, Identity(n))
        /\ links = <<>>
        /\ dom = <<>>
        /\ currentFolder = NULL
        /\ currentEditId = NULL
        /\ folderModal = FALSE
        /\ parentOptions = <<>>
        /\ saveTimer = <<>>
        /\ requests = <<>>
        /\ dm = DMIdle
        /\ retry = RetryIdle
        /\ autosave = AutoSaveIdle
        /\ file = NoFile
        /\ parentFolder = NULL
        /\ clock = n
        /\ last = Other

DataManagerAnswering ==
    \E j \in 1..MaxInFlight, success \in BOOLEAN : dataManagerSaveAnswered(j, success)

NextGateway ==
    \/ DataManagerDelete
    \/ dataManagerSaveData
    \/ DataManagerAnswering
    \/ dataManagerFollowUp

SpecGateway == InitGateway /\ [][NextGateway]_vars

\* ------------------------------------------------------------- the retried save
\* saveDataWithRetry runs once, with any maxRetries up to MaxRetries, among
\* other callers of DataManager.saveData(); every step of it that can be
\* taken is taken in the end, and every POST is answered in the end
InitRetry == InitGateway /\ Len(folders) = 1

StartRetry == \E m \in 0..MaxRetries : saveDataWithRetry(m)

NextRetry ==
    \/ StartRetry
    \/ saveDataWithRetryLoop
    \/ saveDataWithRetryWaited
    \/ dataManagerSaveData
    \/ DataManagerAnswering
    \/ dataManagerFollowUp

SpecRetry ==
    /\ InitRetry
    /\ [][NextRetry]_vars
    /\ WF_vars(saveDataWithRetryLoop)
    /\ WF_vars(saveDataWithRetryWaited)
    /\ WF_vars(DataManagerAnswering)

\* ------------------------------------------------------------- the load
\* the server answers with up to MaxLoaded folders and links, any of which may
\* lack order, parentId or folderId, or with no folders or links field at all
RawFolders(n) ==
    {f \in [1..n -> [id : Ids, name : {"a"}, parentId : {MISSING, NULL, 1},
                     order : {MISSING, 0, 1}]] :
        \A i \in 1..n : f[i].id = i /\ f[i].parentId # i}

RawLinks(n) ==
    {l \in [1..n -> [id : Ids, folderId : {MISSING, NULL, 1},
                     order : {MISSING, 0, 1}]] : \A i \in 1..n : l[i].id = i}

Responses ==
    {Response(hf, fs, hl, ls) :
        hf \in BOOLEAN, hl \in BOOLEAN,
        fs \in UNION {RawFolders(n) : n \in 0..MaxLoaded},
        ls \in UNION {RawLinks(n) : n \in 0..MaxLoaded}}

InitLoad ==
    \E raw \in {r \in Responses : /\ ~r.hasFolders => r.folders = <<>>
                                  /\ ~r.hasLinks => r.links = <<>>} :
        /\ folders = <<>>
        /\ links = <<>>
        /\ dom = <<>>
        /\ currentFolder = NULL
        /\ currentEditId = NULL
        /\ folderModal = FALSE
        /\ parentOptions = <<>>
        /\ saveTimer = <<>>
        /\ requests = <<>>
        /\ dm = DMIdle
        /\ retry = RetryIdle
        /\ autosave = AutoSaveIdle
        /\ file = NoFile
        /\ parentFolder = NULL
        /\ clock = MaxLoaded
        /\ last = Awaiting(raw)

NextLoad == loadData \/ dataManagerLoadData

SpecLoad == InitLoad /\ [][NextLoad]_vars

\* ------------------------------------------------------------- save and load again
\* three folders in any forest (one of them three levels deep), stored in any
\* array order with orders that have gaps and ties, and two links
Orders == {0, 2, 5}

Forest(p) == \A k \in DOMAIN p : p[k] = NULL \/ p[k] < k

RoundTripStores ==
    {Body([k \in 1..3 |-> Folder(perm[k], "a", p[perm[k]], o[perm[k]])],
          <<Link(1, 1, lo[1]), Link(2, f, lo[2])>>) :
        p \in {q \in StoreShapes(3) : Forest(q)}, perm \in Permutations1(3),
        o \in [1..3 -> Orders], f \in {1, 3}, lo \in [1..2 -> {0, 4}]}

InitRoundTrip ==
    \E snap \in RoundTripStores :
        /\ folders = snap.folders
        /\ links = snap.links
        /\ dom = <<>>
        /\ currentFolder = NULL
        /\ currentEditId = NULL
        /\ folderModal = FALSE
        /\ parentOptions = <<>>
        /\ parentFolder = NULL
        /\ saveTimer = <<>>
        /\ requests = <<>>
        /\ dm = DMIdle
        /\ retry = RetryIdle
        /\ autosave = AutoSaveIdle
        /\ file = NoFile
        /\ clock = 3
        /\ last = Other

NextRoundTrip == saveAndReload \/ dataManagerSaveAndReload

SpecRoundTrip == InitRoundTrip /\ [][NextRoundTrip]_vars

\* ------------------------------------------------------------- a load that fails
\* bookmarks.json holds folders and links; the page loads them or fails to,
\* and then only the notes are worked on (the window dragged, text typed),
\* while the save timers fire, the server writes and the POSTs are answered
Persisted ==
    [exists |-> TRUE,
     folders |-> <<Folder(1, "a", NULL, 0), Folder(2, "a", 1, 0)>>,
     links |-> <<Link(1, 2, 0)>>]

InitFailedLoad ==
    /\ folders = <<>>
    /\ links = <<>>
    /\ dom = <<>>
    /\ currentFolder = NULL
    /\ currentEditId = NULL
    /\ folderModal = FALSE
    /\ parentOptions = {}
    /\ parentFolder = NULL
    /\ saveTimer = <<>>
    /\ requests = <<>>
    /\ dm = DMIdle
    /\ retry = RetryIdle
    /\ autosave = AutoSaveIdle
    /\ file = Persisted
    /\ clock = 2
    /\ last = Awaiting(phpLoadData(Persisted))

\* setupNotesWindow() runs at the end of loadData, failed or not
NotesDragged == last.op # "response" /\ stopDragNotesWindow

NotesTyped == last.op # "response" /\ handleAutoSave

ServerSaving == \E j \in 1..MaxInFlight : bookmarkApiSave(j)

NextFailedLoad ==
    \/ loadData
    \/ loadDataFails
    \/ NotesDragged
    \/ NotesTyped
    \/ SaveTimerFiring
    \/ ServerSaving
    \/ SaveAnswering

SpecFailedLoad == InitFailedLoad /\ [][NextFailedLoad]_vars

\* ------------------------------------------------------------- creations
\* folders and links are created through their dialogs; between two creations
\* the millisecond clock has advanced or not
InitCreate ==
    /\ Loaded([folders |-> <<>>, links |-> <<>>])
    /\ clock = 0

Nows == {clock, clock + 1} \ {0}

CreateFolder ==
    /\ Len(folders) < MaxCreated
    /\ currentEditId = NULL
    /\ \E now \in Nows, name \in Names, parentId \in {NULL} \cup parentOptions :
         saveFolderAt(now, name, parentId)

CreateLink ==
    /\ Len(links) < MaxCreated
    /\ \E now \in Nows, f \in {NULL} \cup FolderIds(folders) : saveLinkAt(now, f)

NextCreate == showAddFolderModal \/ CreateFolder \/ CreateLink \/ saveResolves

SpecCreate == InitCreate /\ [][NextCreate]_vars

\* ------------------------------------------------------------- renaming
\* a forest of up to MaxClock folders; the edit dialog is opened on a folder
\* and saved with a name, the parent select left as editFolder set it
InitRename ==
    \E n \in 1..MaxClock :
      \E p \in {q \in StoreShapes(n) : Forest(q)} :
        Loaded([folders |-> StoreOf(n, p, Identity(n)), links |-> <<>>])

EditFolder == \E id \in FolderIds(folders) : editFolder(id)

RenameFolder ==
    /\ currentEditId # NULL
    /\ \E name \in Names : saveFolder(name, parentFolder)

NextRename == EditFolder \/ RenameFolder \/ saveResolves

SpecRename == InitRename /\ [][NextRename]_vars

\* ------------------------------------------------------------- properties
\* the folders below id in the parent graph, as a set
RECURSIVE DescIter(_, _, _)
DescIter(fs, S, n) ==
    IF n = 0 THEN S
    ELSE DescIter(fs, S \cup {fs[i].id : i \in {j \in DOMAIN fs : fs[j].parentId \in S}},
                  n - 1)

Descendants(fs, id) ==
    DescIter(fs, {fs[i].id : i \in {j \in DOMAIN fs : fs[j].parentId = id}}, Len(fs))

HasChild(fs, id) == \E i \in DOMAIN fs : fs[i].parentId = id

Acyclic(fs) == \A i \in DOMAIN fs : fs[i].id \notin Descendants(fs, fs[i].id)

\* a forest: distinct ids, every parent is NULL or a stored folder, no cycle
IsTree(fs) ==
    /\ \A i, j \in DOMAIN fs : i # j => fs[i].id # fs[j].id
    /\ \A i \in DOMAIN fs : fs[i].parentId = NULL \/ fs[i].parentId \in FolderIds(fs)
    /\ Acyclic(fs)

\* C1: in every state reached from an acyclic tree by creating, editing,
\* drag-moving, drag-reordering and deleting folders, no folder is its own ancestor
C1_ParentGraphAcyclic == Acyclic(folders)

\* C2: a reparent request (moveFolder, or saveFolder on an edited folder) whose new
\* parent is the folder itself or one of its descendants at any depth is rejected,
\* and a rejected request changes no folder's parentId, name or order
C2_CycleRejected ==
    [][last'.op \in {"moveFolder", "saveFolder"} =>
          /\ (/\ last'.id \in FolderIds(folders)
              /\ last'.arg # NULL
              /\ last'.arg \in {last'.id} \cup Descendants(folders, last'.id))
             => ~last'.ok
          /\ ~last'.ok => folders' = folders]_vars

\* in a tree, a drop of a folder on its grandchild was rejected
C2_Witness ==
    /\ last.op = "moveFolder"
    /\ ~last.ok
    /\ IsTree(folders)
    /\ last.arg \in Descendants(folders, last.id)
    /\ \A i \in DOMAIN folders : folders[i].id = last.arg => folders[i].parentId # last.id

\* C3: for every tree and every folder id of it, after deleteFolder(id) no link is
\* in id or in a folder that was a descendant of id, and no folder has parent id
C3_NoLinkNoChildLeft ==
    [][(/\ last'.op \in {"deleteFolder", "DataManager.deleteFolder"}
        /\ IsTree(folders)
        /\ last'.id \in FolderIds(folders))
       => /\ \A k \in DOMAIN links' :
                links'[k].folderId \notin {last'.id} \cup Descendants(folders, last'.id)
          /\ \A i \in DOMAIN folders' : folders'[i].parentId # last'.id]_vars

\* a folder was deleted together with its two descendants, and their links
C3_Witness ==
    /\ last.op = "deleteFolder"
    /\ last.ok
    /\ Cardinality(last.mid) = 3
    /\ folders = <<>>
    /\ links = <<>>

\* C4: after deleteFolder(id) reports success for an existing folder, neither id
\* nor any folder that was a descendant of id is stored, wherever they were in
\* the folders array
C4_SubtreeGone ==
    [][(/\ last'.op \in {"deleteFolder", "DataManager.deleteFolder"}
        /\ last'.ok
        /\ last'.id \in FolderIds(folders))
       => FolderIds(folders') \cap ({last'.id} \cup Descendants(folders, last'.id)) = {}]_vars

C6_AutoClosePass ==
    [][last'.op = "toggleFolder" =>
          last'.mid = {x \in ExpandedIds(dom) : x = last'.id \/ HasChild(folders, x)}]_vars

\* a click on a third folder closed an expanded childless folder and kept an
\* expanded folder that has a subfolder
C6_Witness ==
    /\ last.op = "toggleFolder"
    /\ \E a \in last.pre \ last.mid : ~HasChild(folders, a)
    /\ \E b \in last.mid : b # last.id /\ HasChild(folders, b)
    /\ last.id \notin last.pre

\* C7: after a click on a collapsed folder c the expanded folders are c and the
\* folders that were expanded before and have subfolders (also those nested
\* under c), and currentFolder is c
C7_ExpandKeepsOthers ==
    [][(last'.op = "toggleFolder" /\ last'.id \notin ExpandedIds(dom)) =>
          /\ ExpandedIds(dom') =
                {last'.id} \cup {x \in ExpandedIds(dom) : HasChild(folders, x)}
          /\ currentFolder' = last'.id]_vars

\* C8: a click on an expanded folder leaves it collapsed, also when it is the
\* current folder, and a click on a collapsed folder leaves it expanded
C8_ClickToggles ==
    [][last'.op = "toggleFolder" =>
          (last'.id \in ExpandedIds(dom') <=> last'.id \notin ExpandedIds(dom))]_vars

\* the current folder, expanded, was clicked again and is collapsed
C8_Witness ==
    /\ last.op = "toggleFolder"
    /\ last.again
    /\ last.id \in last.pre
    /\ last.id \notin ExpandedIds(dom)
    /\ currentFolder = last.id

\* C9 as claimed: a click on a childless folder x that is the only expanded
\* folder leaves the expanded set {x}
C9_OnlyExpandedStaysOpen ==
    [][(/\ last'.op = "toggleFolder"
        /\ ~HasChild(folders, last'.id)
        /\ ExpandedIds(dom) = {last'.id})
       => ExpandedIds(dom') = {last'.id}]_vars

\* C9 amended: for a childless folder x that is the only expanded folder, the
\* auto-close pass of a click on x leaves {x} expanded, and the click then
\* collapses x: no folder is expanded afterwards
C9_PassSparesClickCloses ==
    [][(/\ last'.op = "toggleFolder"
        /\ ~HasChild(folders, last'.id)
        /\ ExpandedIds(dom) = {last'.id})
       => /\ last'.mid = {last'.id}
          /\ ExpandedIds(dom') = {}]_vars

\* the only expanded folder, childless, was clicked
C9_Witness ==
    /\ last.op = "toggleFolder"
    /\ last.pre = {last.id}
    /\ last.mid = {last.id}
    /\ ~HasChild(folders, last.id)
    /\ ExpandedIds(dom) = {}

\* C10 as claimed: a second click on the same folder leaves the expanded set,
\* the selection and currentFolder as they were after the first
C10_SecondClickChangesNothing ==
    [][(last'.op = "toggleFolder" /\ last'.again) =>
          /\ ExpandedIds(dom') = ExpandedIds(dom)
          /\ SelectedIds(dom') = SelectedIds(dom)
          /\ currentFolder' = currentFolder]_vars

\* C10 amended: after a second click on the same folder x, currentFolder is x and
\* x is selected, as after the first click, and x is expanded exactly when it
\* was not after the first click
C10_SecondClickFlipsBack ==
    [][(last'.op = "toggleFolder" /\ last'.again) =>
          /\ currentFolder = last'.id /\ currentFolder' = last'.id
          /\ last'.id \in SelectedIds(dom) /\ last'.id \in SelectedIds(dom')
          /\ last'.id \in ExpandedIds(dom') <=> last'.id \notin ExpandedIds(dom)]_vars

\* a folder with a subfolder was clicked twice in a row and is expanded again
C10_Witness ==
    /\ last.op = "toggleFolder"
    /\ last.again
    /\ last.id \in ExpandedIds(dom)
    /\ HasChild(folders, last.id)
    /\ currentFolder = last.id

\* C11: toggleFolder(folderId) with an empty store, where folderId has no
\* element, completes without throwing and changes neither the expanded set,
\* nor the selection, nor currentFolder
C11_NoFolderNoOp ==
    [][(/\ last'.op \in {"toggleFolder", "toggleFolderThrew"}
        /\ folders = <<>>
        /\ FirstEl(dom, last'.id) = 0)
       => /\ last'.op = "toggleFolder"
          /\ ExpandedIds(dom') = ExpandedIds(dom)
          /\ SelectedIds(dom') = SelectedIds(dom)
          /\ currentFolder' = currentFolder]_vars

\* the elements directly in container c (0: the root list), in document order
DirectEls(d, c) ==
    LET inC == [j \in DOMAIN d |->
                   IF c = 0 THEN d[j].depth = 0
                   ELSE j > c /\ j <= SubtreeEnd(d, c) /\ d[j].depth = d[c].depth + 1]
        idx == SeqFilterIdx(inC, Len(d), 1)
    IN  [k \in 1..Len(idx) |-> d[idx[k]]]

OrderOf(fs, id) == fs[FindIdx(fs, id)].order

\* C12: after a drag-and-drop reorder of one list (the root list or the direct
\* subfolders of a folder) every folder of that list has order equal to its
\* index in the list, so the orders of the list are 0..n-1
C12_OrderIsIndex ==
    [][last'.op = "reorder" =>
          LET kids == DirectEls(dom', FirstEl(dom', last'.arg))
          IN  \A k \in DOMAIN kids :
                 kids[k].fid \in FolderIds(folders') =>
                     OrderOf(folders', kids[k].fid) = k - 1]_vars

\* C13: a reorder of one list changes the order of no folder outside that list
\* (folders nested deeper, folders of other lists) and of no link
C13_OrderFrame ==
    [][last'.op = "reorder" =>
          LET kids == DirectEls(dom', FirstEl(dom', last'.arg))
              scope == {kids[k].fid : k \in DOMAIN kids}
          IN  /\ Len(folders') = Len(folders)
              /\ \A i \in DOMAIN folders :
                    folders[i].id \notin scope => folders'[i].order = folders[i].order
              /\ links' = links]_vars

SiblingCount(fs, parentId) == Cardinality({i \in DOMAIN fs : fs[i].parentId = parentId})

\* C14: a folder created with parent parentId (and no order given) gets order
\* equal to the number of folders that already have that parentId
C14_OrderIsSiblingCount ==
    [][(last'.op \in {"newFolder", "DataManager.addFolder"} /\ ~last'.again) =>
          OrderOf(folders', last'.id) = SiblingCount(folders, last'.arg)]_vars

\* C16: addFolder with a parentId that names no stored folder is rejected and
\* the folders are unchanged
C16_DanglingParentRejected ==
    [][(/\ last'.op \in {"newFolder", "DataManager.addFolder"}
        /\ last'.arg # NULL
        /\ last'.arg \notin FolderIds(folders))
       => /\ ~last'.ok
          /\ folders' = folders]_vars

\* C15: after moveLink(id, newFolderId) the moved link is the last of the
\* destination folder's links as renderLinks sorts them
C15_MovedLinkIsLast ==
    [][(last'.op = "moveLink" /\ last'.ok) =>
          LET shown == renderedLinks(links', last'.arg)
          IN  shown[Len(shown)].id = last'.id]_vars

\* C17: at no time are two save requests in flight to the server, whatever the
\* order of the save calls, the timers and the answers
C17_OneSaveInFlight == Len(requests) <= 1 /\ Len(dm.inflight) <= 1

\* DataManager alone keeps to one POST in flight
C17_GatewayOneInFlight == Len(dm.inflight) <= 1

\* C18: when DataManager.saveData was called while a save was in flight, the
\* answer to that save, whatever it is, issues exactly one follow-up save and
\* takes the pending mark away
C18_FollowUpWhateverOutcome ==
    [][(last'.op = "DataManager.saveAnswered" /\ dm.pendingSave)
         => /\ dm'.timers = dm.timers + 1
            /\ ~dm'.pendingSave]_vars

\* after a successful answer it does
C18_FollowUpOnSuccess ==
    [][(last'.op = "DataManager.saveAnswered" /\ last'.ok /\ dm.pendingSave)
         => /\ dm'.timers = dm.timers + 1
            /\ ~dm'.pendingSave]_vars

\* C19: a saveData() called before the timer of an earlier one has fired cancels
\* it, so one timer at most is armed and one request is sent for the burst; when
\* the timer fires nothing of the burst is left to send, and the body of the
\* request is the store as it is then
C19_SupersededSaveNotSent ==
    /\ Len(saveTimer) <= 1
    /\ last.op = "send" =>
         /\ saveTimer = <<>>
         /\ requests # <<>>
         /\ requests[Len(requests)].body = Body(folders, links)

\* saveData() was called with a timer armed, and only its own timer is armed now
C19_Witness ==
    /\ last.op = "saveData"
    /\ last.again
    /\ Len(saveTimer) = 1
    /\ saveTimer[1].named

\* C20: after a load, a folders or links field that was missing is an empty
\* sequence, an entity that came without order has its index as order, and a
\* parentId or folderId that was missing is null
C20_LoadDefaults ==
    LET raw == last.mid
    IN  last.op \in {"loadData", "DataManager.loadData"} =>
          /\ ~raw.hasFolders => folders = <<>>
          /\ ~raw.hasLinks => links = <<>>
          /\ raw.hasFolders =>
               /\ Len(folders) = Len(raw.folders)
               /\ \A i \in DOMAIN raw.folders :
                    /\ raw.folders[i].order = MISSING => folders[i].order = i - 1
                    /\ raw.folders[i].parentId = MISSING => folders[i].parentId = NULL
          /\ raw.hasLinks =>
               /\ Len(links) = Len(raw.links)
               /\ \A i \in DOMAIN raw.links :
                    /\ raw.links[i].order = MISSING => links[i].order = i - 1
                    /\ raw.links[i].folderId = MISSING => links[i].folderId = NULL

\* main.js alone: all of it but the folderId of a link
C20_MainDefaults ==
    LET raw == last.mid
    IN  last.op = "loadData" =>
          /\ ~raw.hasFolders => folders = <<>>
          /\ ~raw.hasLinks => links = <<>>
          /\ raw.hasFolders =>
               \A i \in DOMAIN raw.folders :
                    /\ raw.folders[i].order = MISSING => folders[i].order = i - 1
                    /\ raw.folders[i].parentId = MISSING => folders[i].parentId = NULL
          /\ raw.hasLinks =>
               \A i \in DOMAIN raw.links :
                    raw.links[i].order = MISSING => links[i].order = i - 1

\* DataManager alone: all of it but the order
C20_DataManagerDefaults ==
    LET raw == last.mid
    IN  last.op = "DataManager.loadData" =>
          /\ ~raw.hasFolders => folders = <<>>
          /\ ~raw.hasLinks => links = <<>>
          /\ raw.hasFolders =>
               \A i \in DOMAIN raw.folders :
                    raw.folders[i].parentId = MISSING => folders[i].parentId = NULL
          /\ raw.hasLinks =>
               \A i \in DOMAIN raw.links :
                    raw.links[i].folderId = MISSING => links[i].folderId = NULL

\* the ids of the records of a sequence, in its order
IdsOf(s) == [i \in DOMAIN s |-> s[i].id]

\* C21: a store that is saved and loaded again is an equivalent tree: the same
\* folder and link ids, each with the same parentId or folderId, and the same
\* order of the folders and of the links of every folder
C21_RoundTrip ==
    LET pre == last.mid
    IN  last.op \in {"saveAndReload", "DataManager.saveAndReload"} =>
          /\ Len(folders) = Len(pre.folders)
          /\ Len(links) = Len(pre.links)
          /\ \A i \in DOMAIN pre.folders :
               \E j \in DOMAIN folders :
                  /\ folders[j].id = pre.folders[i].id
                  /\ folders[j].parentId = pre.folders[i].parentId
          /\ \A i \in DOMAIN pre.links :
               \E j \in DOMAIN links :
                  /\ links[j].id = pre.links[i].id
                  /\ links[j].folderId = pre.links[i].folderId
          /\ \A p \in {NULL} \cup FolderIds(pre.folders) :
               /\ IdsOf(SortByOrder(ChildrenOf(folders, p)))
                    = IdsOf(SortByOrder(ChildrenOf(pre.folders, p)))
               /\ IdsOf(renderedLinks(links, p)) = IdsOf(renderedLinks(pre.links, p))

\* a store three levels deep, stored out of order, with a gap in the orders
\* and links in two folders went through main.js
C21_Witness ==
    /\ last.op = "saveAndReload"
    /\ \E i, j, k \in DOMAIN folders :
         /\ folders[i].parentId = NULL
         /\ folders[j].parentId = folders[i].id
         /\ folders[k].parentId = folders[j].id
    /\ folders[1].order = 5 /\ folders[2].order = 0
    /\ links[1].folderId # links[2].folderId

\* C22: all folder ids are pairwise distinct and all link ids are pairwise
\* distinct, whatever the creations and the clock values they read
C22_UniqueIds ==
    /\ \A i, j \in DOMAIN folders : i # j => folders[i].id # folders[j].id
    /\ \A i, j \in DOMAIN links : i # j => links[i].id # links[j].id

\* what saveDataWithRetry has done so far is within what it may do: at most
\* maxRetries calls, a wait of 2^k * 100 ms after the k-th failed call and
\* none after the last one, true returned with the first call that returned
\* true and false only when maxRetries calls returned false or threw
RetryWithinBounds ==
    /\ retry.calls <= retry.maxRetries
    /\ \A k \in DOMAIN retry.waits : retry.waits[k] = Pow2(k) * 100
    /\ Len(retry.waits) <= retry.failed
    /\ retry.maxRetries > 0 => Len(retry.waits) < retry.maxRetries
    /\ retry.pc = "done" =>
         IF retry.returned
         THEN /\ retry.calls = retry.failed + 1
              /\ Len(retry.waits) = retry.failed
         ELSE /\ retry.calls = retry.maxRetries
              /\ retry.failed = retry.maxRetries

\* C23: saveDataWithRetry(maxRetries) ends after at most maxRetries calls of
\* saveData; it returns true with the first call that returns true, false
\* exactly when all maxRetries calls returned false or threw, and it waits
\* 2^attempts * 100 ms between attempts only
C23_RetryTerminates ==
    /\ []RetryWithinBounds
    /\ (retry.pc # "idle") ~> (retry.pc = "done")

\* three calls failed, two waits of 200 and 400 ms were made, false is returned
C23_Witness ==
    /\ retry.pc = "done"
    /\ ~retry.returned
    /\ retry.calls = 3
    /\ retry.waits = <<200, 400>>

\* C24: when the save of a notes auto-save has failed, handleAutoSave is not
\* through: it counts the attempt and tries again (three times at most, before
\* the emergency save of the plain text)
C24_FailedAutoSaveRetried ==
    (last.op = "autoSaveAnswered" /\ ~last.ok) =>
        /\ autosave.pc # "done"
        /\ autosave.saveAttempts = 1

\* C25: the promise of every saveData() call resolves in the end, so a call
\* leaves the timers of the earlier calls armed beside its own (a timer that is
\* cancelled never resolves its promise, and what its caller placed after the
\* await is never run)
C25_NoPromiseDropped ==
    [][(last'.op \in {"saveData", "deleteLink", "moveLink"} /\ last'.ok)
         => Len(saveTimer') = Len(saveTimer) + 1]_vars

\* C26: deleteFolder(id) on a tree keeps every folder outside the subtree of id
\* and every link whose folder is outside it, with all their fields, wherever
\* the folders are in the array
C26_DeleteFrame ==
    [][(/\ last'.op \in {"deleteFolder", "DataManager.deleteFolder"}
        /\ IsTree(folders)
        /\ last'.id \in FolderIds(folders))
       => LET gone == {last'.id} \cup Descendants(folders, last'.id)
          IN  /\ \A i \in DOMAIN folders :
                   folders[i].id \notin gone =>
                       \E j \in DOMAIN folders' : folders'[j] = folders[i]
              /\ \A k \in DOMAIN links :
                   links[k].folderId \notin gone =>
                       \E m \in DOMAIN links' : links'[m] = links[k]]_vars

\* main.js deleteFolder alone keeps them
C26_MainDeleteFrame ==
    [][(/\ last'.op = "deleteFolder"
        /\ IsTree(folders)
        /\ last'.id \in FolderIds(folders))
       => LET gone == {last'.id} \cup Descendants(folders, last'.id)
          IN  /\ \A i \in DOMAIN folders :
                   folders[i].id \notin gone =>
                       \E j \in DOMAIN folders' : folders'[j] = folders[i]
              /\ \A k \in DOMAIN links :
                   links[k].folderId \notin gone =>
                       \E m \in DOMAIN links' : links'[m] = links[k]]_vars

\* C27: currentFolder is null or the id of a stored folder; stated for the
\* states in which no save is under way, so that every deletion has run to
\* its end (the reset of currentFolder and the re-render after the save)
C27_CurrentFolderStored ==
    (saveTimer = <<>> /\ requests = <<>>) =>
        (currentFolder = NULL \/ currentFolder \in FolderIds(folders))

\* C28: saving the edit dialog of a folder with only the name changed changes
\* only the name of that folder: its parentId and order and every other
\* folder stay as they were, for a root folder and for a nested one
C28_RenameChangesNameOnly ==
    [][(last'.op = "saveFolder" /\ last'.id \in FolderIds(folders))
         => /\ Len(folders') = Len(folders)
            /\ \A i \in DOMAIN folders :
                 folders'[i] = IF folders[i].id = last'.id
                               THEN [folders[i] EXCEPT !.name = folders'[i].name]
                               ELSE folders[i]]_vars

\* for a root folder it does
C28_RootRenameChangesNameOnly ==
    [][(/\ last'.op = "saveFolder"
        /\ \E i \in DOMAIN folders :
              folders[i].id = last'.id /\ folders[i].parentId = NULL)
         => /\ Len(folders') = Len(folders)
            /\ \A i \in DOMAIN folders :
                 folders'[i] = IF folders[i].id = last'.id
                               THEN [folders[i] EXCEPT !.name = folders'[i].name]
                               ELSE folders[i]]_vars

\* C29: while the user changes no folder and no link, bookmarks.json keeps the
\* folders and links it had, whether the load failed or not (notes dragged or
\* typed after a failed load do not replace them by empty collections)
C29_PersistedKept ==
    /\ file.folders = Persisted.folders
    /\ file.links = Persisted.links

\* after a load that succeeded it does
C29_PersistedKeptAfterLoad ==
    folders # <<>> => (file.folders = Persisted.folders /\ file.links = Persisted.links)

\* C30: a drag-reorder of the subfolders of folder p changes the parentId only
\* of folders placed directly in p's subfolder list: the folders nested deeper
\* (rendered inside an expanded child of p) keep their parentId
C30_ParentFrame ==
    [][(last'.op = "reorder" /\ last'.arg # NULL) =>
          LET kids == DirectEls(dom', FirstEl(dom', last'.arg))
              scope == {kids[k].fid : k \in DOMAIN kids}
          IN  /\ Len(folders') = Len(folders)
              /\ \A i \in DOMAIN folders :
                    folders[i].id \notin scope =>
                        folders'[i].parentId = folders[i].parentId]_vars

\* the folders of the list itself get parentId p, which they had
C30_ListKeepsParent ==
    [][(last'.op = "reorder" /\ last'.arg # NULL) =>
          LET kids == DirectEls(dom', FirstEl(dom', last'.arg))
          IN  \A k \in DOMAIN kids :
                 \A i \in DOMAIN folders' :
                    folders'[i].id = kids[k].fid =>
                        folders'[i].parentId = last'.arg]_vars

====
